---- MODULE Spec2Model ----
(***************************************************************************)
(* Offline receipt queue of the ETR web client (static/js/offline.js) and  *)
(* the live submission flow that surrounds it (static/js/create_receipt.js) *)
(*                                                                         *)
(* One page session is one JavaScript realm: a single-threaded event loop. *)
(* Every action below is one run-to-completion step of that loop: an event *)
(* handler, or the continuation of an async function after an await.       *)
(***************************************************************************)
EXTENDS Integers, Sequences, FiniteSets, TLC

\* ------------------------------------------------------------------ bounds
MaxQueue == 3      \* entries held in the queue at once
MaxObjects == 4    \* receipt objects alive at once in one page session
MaxDrains == 2     \* calls of syncPendingReceipts pending at once
MaxBanners == 1    \* offline indicators appended in one page session
MaxRows == 2       \* item rows of the receipt form
MaxEvents == 3     \* offline indicators appended in one page session followed without a page load
MaxAdds == 5       \* calls of addLiveActivity in one page session

\* "Limit to 10 items": the length the activity list is cut back at.
ActivityLimit == 10

\* A validated line item, and the receipt contents the queue is exercised
\* with (what JSON.stringify keeps of a receipt object: its items).
Item(name) == [name |-> name, quantity |-> 1, price |-> 0]

Payload == {<<Item("a")>>, <<Item("b")>>}

\* Outcomes of one fetch('/create-receipt') issued by the sync loop.
Outcome == {"ok", "notok", "reject"}

\* A numeric form field after parseFloat: NaN, or a number.
NaN == [nan |-> TRUE, v |-> 0]

Num(v) == [nan |-> FALSE, v |-> v]

\* An item row as the page creates it: no name, quantity "1", no price.
BlankRow == [name |-> "", quantity |-> Num(1), price |-> NaN]

VARIABLES
    navigatorOnLine,   \* navigator.onLine, owned by the browser
    localStorage,      \* the item stored under 'pendingReceipts'
    listening,         \* the 'online'/'offline' listeners are registered
    constructed,       \* new OfflineManager() returned normally
    isOnline,          \* this.isOnline
    queueKind,         \* what this.pendingReceipts is: "array", "null", "object", "unset"
    pendingReceipts,   \* this.pendingReceipts when it is an array: <<[id, data]>>
    drains,            \* the pending calls of syncPendingReceipts, by slot
    lastPass,          \* the call of syncPendingReceipts that returned in the last step
    acked,             \* ids (of objects still referenced) whose success response was handled
    offlineClass,      \* document.body.classList contains 'offline'
    banners,           \* number of .offline-indicator elements in the document
    live,              \* generateReceipt awaiting its fetch: <<receiptData>>, else <<>>
    dialog,            \* what generateReceipt showed in the last step, else "none"
    itemRows,          \* the .item-row elements of the form, as their fields read
    liveActivity       \* the child nodes of #liveActivity, first child first

liveVars == <<live, dialog, itemRows, liveActivity>>

vars == <<navigatorOnLine, localStorage, listening, constructed, isOnline,
          queueKind, pendingReceipts, drains, lastPass, acked, offlineClass,
          banners, live, dialog, itemRows, liveActivity>>

\* ------------------------------------------------------- storage and JSON
RECURSIVE SeqsUpTo(_)
SeqsUpTo(n) ==
    IF n = 0 THEN {<<>>}
    ELSE LET shorter == SeqsUpTo(n - 1)
         IN  shorter \cup {Append(s, p) : s \in {t \in shorter : Len(t) = n - 1}, p \in Payload}

Absent == [kind |-> "absent", val |-> <<>>]

\* Items the program itself leaves under the key: none, or a JSON array.
WrittenItems ==
    {Absent} \cup {[kind |-> "array", val |-> s] : s \in SeqsUpTo(MaxQueue)}

\* Items no code of the program writes: '', non-JSON text, JSON null and a
\* JSON value that is neither an array nor null (an object, a number).
ForeignItems ==
    {[kind |-> k, val |-> <<>>] : k \in {"empty", "text", "null", "object"}}

\* JSON.stringify(this.pendingReceipts): contents in order, identities dropped.
Stringify(q) ==
    [kind |-> "array", val |-> [k \in 1..Len(q) |-> q[k].data]]

SetItemSkipped(q) == localStorage

\* localStorage.setItem('pendingReceipts', JSON.stringify(q)): the new item.
SetItem(q) == Stringify(q)

GetItemIgnored(item) == [kind |-> "array", val |-> <<>>]

\* localStorage.getItem('pendingReceipts') || '[]' : the text handed to JSON.parse.
GetItemOrDefault(item) ==
    IF item.kind \in {"absent", "empty"} THEN [kind |-> "array", val |-> <<>>] ELSE item

\* JSON.parse of that text: it throws on non-JSON text; an array becomes a new
\* array of new objects (ids 1..n of the new realm).
JsonParse(text) ==
    CASE text.kind = "text"  -> [threw |-> TRUE,  kind |-> "unset", val |-> <<>>]
      [] text.kind = "array" -> [threw |-> FALSE, kind |-> "array",
                                 val |-> [k \in 1..Len(text.val) |-> [id |-> k, data |-> text.val[k]]]]
      [] OTHER               -> [threw |-> FALSE, kind |-> text.kind, val |-> <<>>]

\* The contents persisted under the key, read back as a sequence.
StoredPayloads == GetItemOrDefault(localStorage).val

Payloads(q) == [k \in 1..Len(q) |-> q[k].data]

Ids(q) == {q[k].id : k \in 1..Len(q)}

\* ------------------------------------------------------------- sync loop
FilterByContent(q, receipt) == SelectSeq(q, LAMBDA r : r.data # receipt.data)

FilterShift(q, receipt) == IF q = <<>> THEN q ELSE Tail(q)

\* this.pendingReceipts.filter(r => r !== receipt): a new array, by identity.
Filter(q, receipt) == SelectSeq(q, LAMBDA r : r.id # receipt.id)

\* A pending call d of syncPendingReceipts is its array iterator: d.todo holds
\* the elements of the iterated array from the iterator's index on (the head
\* is the receipt whose fetch is awaited), d.at is that index, d.live says
\* that the iterated array is still the one this.pendingReceipts refers to.
\* d.solo and d.fails keep the history of a pass that runs alone; d.intact
\* says that no element has left the queue since the call started, d.clean
\* that every response the call has handled was ok.

\* A slot of `drains` with no call pending; `lastPass` when no call has just returned.
Idle == [todo |-> <<>>, at |-> 0, live |-> FALSE, done |-> TRUE,
         fails |-> {}, trigger |-> "none", solo |-> FALSE, intact |-> FALSE, clean |-> FALSE]

Slots == 1..MaxDrains

Active == {i \in Slots : ~drains[i].done}

FreeSlot == CHOOSE i \in Slots \ Active : \A j \in Slots \ Active : i <= j

NextIterationFromEnd(d) ==
    IF Len(d.todo) > 1
    THEN [d EXCEPT !.todo = <<d.todo[Len(d.todo)]>> \o SubSeq(d.todo, 2, Len(d.todo) - 1), !.at = @ + 1]
    ELSE [d EXCEPT !.todo = <<>>, !.done = TRUE, !.live = FALSE, !.intact = FALSE, !.clean = @]

NextIterationSticks(d) == d

NextIterationStopsOffline(d) ==
    IF Len(d.todo) > 1 /\ isOnline
    THEN [d EXCEPT !.todo = Tail(@), !.at = @ + 1]
    ELSE [d EXCEPT !.todo = <<>>, !.done = TRUE, !.live = FALSE, !.intact = FALSE, !.clean = @]

\* The for...of step after an iteration: the array iterator moves on, and ends
\* once its index passes the length the iterated array has at that moment.
NextIteration(d) ==
    IF Len(d.todo) > 1
    THEN [d EXCEPT !.todo = Tail(@), !.at = @ + 1]
    ELSE [d EXCEPT !.todo = <<>>, !.done = TRUE, !.live = FALSE, !.intact = FALSE, !.clean = @]

\* The failures of a pass are recorded while it runs alone (d.solo).
Failed(d) ==
    [d EXCEPT !.fails = IF d.solo THEN @ \cup {[at |-> d.at, receipt |-> Head(d.todo)]} ELSE {},
              !.clean = FALSE]

\* The pass stops being alone: another call starts, or a receipt is stored.
Disturbed(d) == [d EXCEPT !.solo = FALSE, !.fails = {}]

OnFailureRetry(d) == Failed(d)

OnFailureAbort(d) == [Failed(d) EXCEPT !.todo = <<>>, !.done = TRUE, !.live = FALSE, !.intact = FALSE, !.clean = @]

\* A rejected fetch (caught, logged) or a response that is not ok: nothing is
\* removed and the loop goes on.
OnFailure(d) == NextIteration(Failed(d))

AfterSuccessSplicedInPlace(d) ==
    NextIteration([d EXCEPT !.todo = IF Len(@) > 1 THEN Tail(@) ELSE @, !.live = FALSE])

\* A response that is ok: this.pendingReceipts is assigned a new array, so the
\* iterated array is left as it was and the loop goes on over it.
AfterSuccess(d) == NextIteration([d EXCEPT !.live = FALSE])

NewDrainUnlessEmpty(kind, q, trigger, alone) ==
    IF kind = "array" /\ Len(q) > 0
    THEN [todo |-> q, at |-> 1, live |-> TRUE, done |-> FALSE,
          fails |-> {}, trigger |-> trigger, solo |-> alone, intact |-> TRUE, clean |-> TRUE]
    ELSE Idle

\* syncPendingReceipts() up to its first await: the iterator is taken on the
\* array this.pendingReceipts refers to and the first fetch is issued.  Over
\* an empty array the loop ends at once; over null or a non-iterable the
\* async function rejects at once.
NewDrain(kind, q, trigger, alone) ==
    IF kind = "array" /\ Len(q) > 0
    THEN [todo |-> q, at |-> 1, live |-> TRUE, done |-> FALSE,
          fails |-> {}, trigger |-> trigger, solo |-> alone, intact |-> TRUE, clean |-> TRUE]
    ELSE [todo |-> <<>>, at |-> 0, live |-> FALSE, done |-> TRUE,
          fails |-> {}, trigger |-> trigger, solo |-> alone, intact |-> FALSE, clean |-> FALSE]

\* The calls pending after a step in which the call in slot i became d: a call
\* that has returned leaves its slot.
Settle(ds, i, d) == [ds EXCEPT ![i] = IF d.done THEN Idle ELSE d]

\* The receipt objects the realm still refers to, and a name for a new one.
Referenced(q, ds, last) ==
    Ids(q) \cup UNION {Ids(ds[i].todo) : i \in Slots}
           \cup {f.receipt.id : f \in last.fails}

Unused == (1..MaxObjects) \ Referenced(pendingReceipts, drains, lastPass)

NewId == CHOOSE n \in Unused : \A m \in Unused : n <= m

\* ----------------------------------------------------------- construction
StartupSyncIgnoresConnectivity(q, onl) == Len(q) > 0

\* init(): if (this.pendingReceipts.length > 0 && this.isOnline)
StartupSync(q, onl) == Len(q) > 0 /\ onl

\* new OfflineManager() on a page load with `item` in storage and
\* navigator.onLine = onl: the state the realm is left in.  JSON.parse throws
\* out of the constructor before init(); `.length` of null throws out of
\* init() after the listeners were added; `.length` of an object or a number
\* is undefined, so no sync is started.
Construct(item, onl) ==
    LET parsed == JsonParse(GetItemOrDefault(item))
        q == parsed.val
        sync == parsed.kind = "array" /\ StartupSync(q, onl)
    IN  [listening   |-> ~parsed.threw,
         constructed |-> ~parsed.threw /\ parsed.kind # "null",
         isOnline    |-> onl,
         queueKind   |-> parsed.kind,
         queue       |-> q,
         drains      |-> [i \in Slots |->
                            IF sync /\ i = 1
                            THEN NewDrain("array", q, "startup", TRUE)
                            ELSE Idle]]

\* The page as loaded, with the given child nodes in the activity container.
LoadedWith(item, onl, nodes) ==
    LET c == Construct(item, onl)
    IN  /\ navigatorOnLine = onl
        /\ localStorage = item
        /\ listening = c.listening
        /\ constructed = c.constructed
        /\ isOnline = c.isOnline
        /\ queueKind = c.queueKind
        /\ pendingReceipts = c.queue
        /\ drains = c.drains
        /\ lastPass = Idle
        /\ acked = {}
        /\ offlineClass = FALSE
        /\ banners = 0
        /\ live = <<>>
        /\ dialog = "none"
        /\ itemRows = <<BlankRow>>
        /\ liveActivity = nodes

\* A page without an activity list.
Loaded(item, onl) == LoadedWith(item, onl, <<>>)

Init == \E item \in WrittenItems, onl \in BOOLEAN : Loaded(item, onl)

InitLoad == \E item \in WrittenItems \cup ForeignItems, onl \in BOOLEAN : Loaded(item, onl)

\* A page load: the old realm (its objects, its pending continuations, its
\* document) is gone, storage and the network state stay.
Reload ==
    LET c == Construct(localStorage, navigatorOnLine)
    IN  /\ listening' = c.listening
        /\ constructed' = c.constructed
        /\ isOnline' = c.isOnline
        /\ queueKind' = c.queueKind
        /\ pendingReceipts' = c.queue
        /\ drains' = c.drains
        /\ lastPass' = Idle
        /\ acked' = {}
        /\ offlineClass' = FALSE
        /\ banners' = 0
        /\ live' = <<>>
        /\ dialog' = "none"
        /\ itemRows' = <<BlankRow>>
        /\ liveActivity' = <<>>
        /\ UNCHANGED <<navigatorOnLine, localStorage>>

\* ---------------------------------------------------------------- events
ShowOnlyWhenOffline(n) == IF isOnline THEN n ELSE n + 1

\* showOfflineNotification(): one more .offline-indicator element is appended
\* to the document body; n is the number of those elements before the call.
showOfflineNotification(n) == n + 1

\* The browser goes online; with the listener registered, handleOnline():
\* the flag, one call of syncPendingReceipts, the class.
HandleOnline ==
    /\ ~navigatorOnLine
    /\ Active # Slots
    /\ navigatorOnLine' = TRUE
    /\ IF listening
       THEN LET d == NewDrain(queueKind, pendingReceipts, "online", Active = {})
                others == [j \in Slots |-> IF drains[j].done THEN Idle ELSE Disturbed(drains[j])]
            IN  /\ isOnline' = TRUE
                /\ drains' = Settle(others, FreeSlot, d)
                /\ lastPass' = IF d.done THEN d ELSE Idle
                /\ offlineClass' = FALSE
       ELSE /\ lastPass' = Idle
            /\ UNCHANGED <<isOnline, drains, offlineClass>>
    /\ UNCHANGED <<localStorage, listening, constructed, queueKind,
                   pendingReceipts, acked, banners, liveVars>>

\* The browser goes offline; with the listener registered, handleOffline().
\* The step is taken while fewer than cap indicators are in the document.
HandleOfflineWithin(cap) ==
    /\ navigatorOnLine
    /\ banners < cap
    /\ navigatorOnLine' = FALSE
    /\ IF listening
       THEN /\ isOnline' = FALSE
            /\ offlineClass' = TRUE
            /\ banners' = showOfflineNotification(banners)
       ELSE UNCHANGED <<isOnline, offlineClass, banners>>
    /\ lastPass' = Idle
    /\ UNCHANGED <<localStorage, listening, constructed, queueKind,
                   pendingReceipts, drains, acked, liveVars>>

HandleOffline == HandleOfflineWithin(MaxBanners)

\* The continuation of syncPendingReceipts after `await fetch(...)` in slot i:
\* the response is handled and the loop runs on to its next await or its end.
HandleResponse(i, outcome) ==
    /\ i \in Active
    /\ LET d == drains[i]
           receipt == Head(d.todo)
       IN  IF outcome = "ok"
           THEN LET q == Filter(pendingReceipts, receipt)
                    others == [j \in Slots |->
                                 [drains[j] EXCEPT !.live = FALSE,
                                                   !.intact = @ /\ q = pendingReceipts]]
                    after == AfterSuccess([d EXCEPT !.intact = @ /\ q = pendingReceipts])
                    ds == Settle(others, i, after)
                    last == IF after.done THEN after ELSE Idle
                IN  /\ pendingReceipts' = q
                    /\ localStorage' = SetItem(q)
                    /\ drains' = ds
                    /\ lastPass' = last
                    /\ acked' = (acked \cup {receipt.id}) \cap Referenced(q, ds, last)
           ELSE LET after == OnFailure(d)
                    ds == Settle(drains, i, after)
                    last == IF after.done THEN after ELSE Idle
                IN  /\ drains' = ds
                    /\ lastPass' = last
                    /\ acked' = acked \cap Referenced(pendingReceipts, ds, last)
                    /\ UNCHANGED <<pendingReceipts, localStorage>>
    /\ UNCHANGED <<navigatorOnLine, listening, constructed, isOnline, queueKind,
                   offlineClass, banners, liveVars>>

PushFront(q, receipt) == <<receipt>> \o q

\* this.pendingReceipts.push(receiptData)
Push(q, receipt) == Append(q, receipt)

\* offlineManager.storeReceiptOffline(receiptData) with a newly built receipt
\* object.  push() mutates the array in place, so a loop that iterates that
\* very array sees the new element.  On a queue that is no array push is not
\* a function and the call throws before anything is written.  The step is
\* taken while fewer than cap indicators are in the document.
storeReceiptOfflineWithin(data, cap) ==
    /\ constructed
    /\ Unused # {}
    /\ Len(pendingReceipts) < MaxQueue
    /\ banners < cap
    /\ IF queueKind = "array"
       THEN LET receipt == [id |-> NewId, data |-> data]
                q == Push(pendingReceipts, receipt)
            IN  /\ pendingReceipts' = q
                /\ localStorage' = SetItem(q)
                /\ banners' = showOfflineNotification(banners)
                /\ drains' = [j \in Slots |->
                                IF drains[j].done THEN drains[j]
                                ELSE [Disturbed(drains[j]) EXCEPT
                                        !.todo = IF drains[j].live THEN Push(@, receipt) ELSE @]]
       ELSE UNCHANGED <<pendingReceipts, localStorage, banners, drains>>
    /\ lastPass' = Idle
    /\ UNCHANGED <<navigatorOnLine, listening, constructed, isOnline, queueKind,
                   acked, offlineClass, liveVars>>

storeReceiptOffline(data) == storeReceiptOfflineWithin(data, MaxBanners)

\* ------------------------------------------------- live submission flow
\* The rows a form is filled with.
Defects(row) ==
    Cardinality({f \in {"name", "quantity", "price"} :
                   \/ f = "name" /\ row.name = ""
                   \/ f = "quantity" /\ row.quantity # Num(1)
                   \/ f = "price" /\ row.price # Num(0)})

Rows == {row \in [name : {"", "a", "b"}, quantity : {NaN, Num(0), Num(1)},
                  price : {NaN, Num(-1), Num(0)}] : Defects(row) <= 1}

Forms == UNION {[1..n -> Rows] : n \in 0..MaxRows}

RowInvalidAllowsZero(row) ==
    \/ row.name = ""
    \/ row.quantity.nan
    \/ row.quantity.v < 0
    \/ row.price.nan
    \/ row.price.v < 0

\* if (!name || isNaN(quantity) || quantity <= 0 || isNaN(price) || price < 0)
RowInvalid(row) ==
    \/ row.name = ""
    \/ row.quantity.nan
    \/ row.quantity.v <= 0
    \/ row.price.nan
    \/ row.price.v < 0

\* validateForm(): valid only if no row is invalid; the items of the valid rows.
ValidateForm(form) ==
    [valid |-> \A k \in 1..Len(form) : ~RowInvalid(form[k]),
     items |-> LET ok == SelectSeq(form, LAMBDA row : ~RowInvalid(row))
               IN  [k \in 1..Len(ok) |->
                      [name |-> ok[k].name, quantity |-> ok[k].quantity.v,
                       price |-> ok[k].price.v]]]

\* Responses of the live fetch: it rejects (no connectivity), or it resolves
\* with a body that says success, says failure, or is no JSON.
LiveOutcome == {"reject", "success", "failure", "nojson"}

\* generateReceipt() up to its await: an invalid or empty form is refused
\* with an alert, otherwise the receipt is posted.
generateReceipt(form) ==
    /\ live = <<>>
    /\ LET validation == ValidateForm(form)
       IN  IF ~validation.valid \/ Len(validation.items) = 0
           THEN /\ dialog' = "alertInvalid"
                /\ live' = <<>>
           ELSE /\ dialog' = "none"
                /\ live' = <<validation.items>>
    /\ lastPass' = Idle
    /\ UNCHANGED <<navigatorOnLine, localStorage, listening, constructed, isOnline,
                   queueKind, pendingReceipts, drains, acked, offlineClass, banners,
                   itemRows, liveActivity>>

\* The continuation of generateReceipt after its await: the receipt is shown
\* if the body says success, an alert otherwise; a rejected fetch and a body
\* that is no JSON end in the catch block, which alerts.
LiveResponse(outcome) ==
    /\ live # <<>>
    /\ live' = <<>>
    /\ dialog' = CASE outcome = "success" -> "receipt"
                   [] outcome = "failure" -> "alertError"
                   [] OTHER               -> "alertException"
    /\ lastPass' = Idle
    /\ UNCHANGED <<navigatorOnLine, localStorage, listening, constructed, isOnline,
                   queueKind, pendingReceipts, drains, acked, offlineClass, banners,
                   itemRows, liveActivity>>

\* ----------------------------------------------------------- receipt form
formRest == <<navigatorOnLine, localStorage, listening, constructed, isOnline,
              queueKind, pendingReceipts, drains, acked, offlineClass, banners,
              live, dialog, liveActivity>>

RemoveAtUnguarded(rows, k) ==
    [j \in 1..(Len(rows) - 1) |-> IF j < k THEN rows[j] ELSE rows[j + 1]]

\* The click handler of a row's remove button: the row is removed only if
\* the container has more than one child.
RemoveAt(rows, k) ==
    IF Len(rows) > 1
    THEN [j \in 1..(Len(rows) - 1) |-> IF j < k THEN rows[j] ELSE rows[j + 1]]
    ELSE rows

\* addItemRow(): a new row is appended to the container.
addItemRow ==
    /\ Len(itemRows) < MaxRows
    /\ itemRows' = Append(itemRows, BlankRow)
    /\ lastPass' = Idle
    /\ UNCHANGED formRest

\* A click on the remove button of row k.
removeItemRow(k) ==
    /\ k \in 1..Len(itemRows)
    /\ itemRows' = RemoveAt(itemRows, k)
    /\ lastPass' = Idle
    /\ UNCHANGED formRest

\* clearForm(): unless the confirm dialog is dismissed, every row but the
\* first is removed and the fields of the first are reset.
clearForm(confirmed) ==
    /\ itemRows' = IF confirmed THEN <<BlankRow>> ELSE itemRows
    /\ lastPass' = Idle
    /\ UNCHANGED formRest

\* The user fills the fields of row k.
InputRow(k, row) ==
    /\ k \in 1..Len(itemRows)
    /\ itemRows' = [itemRows EXCEPT ![k] = row]
    /\ lastPass' = Idle
    /\ UNCHANGED formRest

\* The receipt page on its own: the form is edited and submitted.
NextForm ==
    \/ addItemRow
    \/ \E k \in 1..MaxRows : removeItemRow(k)
    \/ \E confirmed \in BOOLEAN : clearForm(confirmed)
    \/ \E k \in 1..MaxRows, row \in Rows : InputRow(k, row)
    \/ generateReceipt(itemRows)
    \/ \E outcome \in LiveOutcome : LiveResponse(outcome)

InitForm == \E onl \in BOOLEAN : Loaded(Absent, onl)

SpecForm == InitForm /\ [][NextForm]_vars

\* -------------------------------------------------------------- dashboard
\* Child nodes of the activity container: an .activity-item element, numbered
\* by age (initial items below 1, added items from 1 up), or a text node.
ItemNode(n) == [kind |-> "item", n |-> n]

TextNode == [kind |-> "text", n |-> 0]

\* activityContainer.children.length: the element children only.
ChildrenLength(nodes) == Len(SelectSeq(nodes, LAMBDA node : node.kind = "item"))

\* The container as the page delivers it with k items, newest first: the
\* elements alone, or each on a line of its own, with white-space text
\* nodes around them.
Compact(k) == [j \in 1..k |-> ItemNode(1 - j)]

Indented(k) == [j \in 1..(2 * k + 1) |-> IF j % 2 = 1 THEN TextNode ELSE ItemNode(1 - (j \div 2))]

InitialLists == UNION {{Compact(k), Indented(k)} : k \in 0..ActivityLimit}

\* The number of items added so far: the newest is the first node.
Added(nodes) ==
    IF nodes # <<>> /\ nodes[1].kind = "item" /\ nodes[1].n > 0 THEN nodes[1].n ELSE 0

\* insertBefore(activityItem, firstChild), then removeChild(lastChild) if
\* children.length > 10.
InsertAndTrim(nodes, item) ==
    LET inserted == <<item>> \o nodes
    IN  IF ChildrenLength(inserted) > ActivityLimit
        THEN SubSeq(inserted, 1, Len(inserted) - 1)
        ELSE inserted

\* addLiveActivity(receipt), on a 'new_receipt' message.
addLiveActivity ==
    /\ Added(liveActivity) < MaxAdds
    /\ liveActivity' = InsertAndTrim(liveActivity, ItemNode(Added(liveActivity) + 1))
    /\ UNCHANGED <<navigatorOnLine, localStorage, listening, constructed, isOnline,
                   queueKind, pendingReceipts, drains, lastPass, acked, offlineClass,
                   banners, live, dialog, itemRows>>

NextDashboard == addLiveActivity

InitDashboard ==
    \E onl \in BOOLEAN, nodes \in InitialLists : LoadedWith(Absent, onl, nodes)

SpecDashboard == InitDashboard /\ [][NextDashboard]_vars

Next ==
    \/ Reload
    \/ HandleOnline
    \/ HandleOffline
    \/ \E i \in Slots, outcome \in Outcome : HandleResponse(i, outcome)
    \/ \E data \in Payload : storeReceiptOffline(data)

\* The page with the receipt form in use as well.
NextLive ==
    \/ Next
    \/ \E form \in Forms : generateReceipt(form)
    \/ \E outcome \in LiveOutcome : LiveResponse(outcome)

Spec == Init /\ [][Next]_vars

SpecLoad == InitLoad /\ [][Next]_vars

SpecLive == Init /\ [][NextLive]_vars

\* One page session followed further: up to MaxEvents indicators, that is
\* offline events and stored receipts, and no page load in between.
NextSession ==
    \/ HandleOnline
    \/ HandleOfflineWithin(MaxEvents)
    \/ \E i \in Slots, outcome \in Outcome : HandleResponse(i, outcome)
    \/ \E data \in Payload : storeReceiptOfflineWithin(data, MaxEvents)

SpecSession == Init /\ [][NextSession]_vars

\* One page session, with no page load, in which every fetch of the sync
\* loop settles: while calls are pending, a continuation is eventually run.
NextPass ==
    \/ HandleOnline
    \/ HandleOffline
    \/ \E i \in Slots, outcome \in Outcome : HandleResponse(i, outcome)
    \/ \E data \in Payload : storeReceiptOffline(data)

FairPass ==
    /\ Init
    /\ [][NextPass]_vars
    /\ WF_vars(\E i \in Slots, outcome \in Outcome : HandleResponse(i, outcome))

\* ------------------------------------------------------------- responses
\* What a fetch('/create-receipt') settles with: it rejects, or it resolves
\* with a response that has a status (ok: 2xx or not) and a body, which is
\* JSON with success true, JSON with success false, or no JSON at all.
Responses ==
    {[kind |-> "reject", ok |-> FALSE, body |-> "nojson"]}
        \cup [kind : {"http"}, ok : BOOLEAN, body : {"success", "failure", "nojson"}]

SyncOutcomeChecksBody(resp) ==
    CASE resp.kind = "reject"                -> "reject"
      [] resp.ok /\ resp.body = "success"    -> "ok"
      [] OTHER                               -> "notok"

\* What the sync loop makes of it: `if (response.ok)`; the body is not read.
SyncOutcome(resp) ==
    CASE resp.kind = "reject" -> "reject"
      [] resp.ok              -> "ok"
      [] OTHER                -> "notok"

\* What generateReceipt makes of it: `await response.json()`, then
\* `if (result.success)`; the status is not read.
LiveResult(resp) ==
    IF resp.kind = "reject" THEN "reject" ELSE resp.body

SyncResponse(i, resp) == HandleResponse(i, SyncOutcome(resp))

LiveHttpResponse(resp) == LiveResponse(LiveResult(resp))

\* The form as the page shows it first: a single item row.
FirstForms == [1..1 -> Rows]

\* Both submission paths of the page, with the responses they are given, in
\* a session whose connectivity comes up at most once.
NextHttp ==
    \/ HandleOnline
    \/ \E i \in Slots, resp \in Responses : SyncResponse(i, resp)
    \/ \E form \in FirstForms : generateReceipt(form)
    \/ \E resp \in Responses : LiveHttpResponse(resp)

SpecHttp == Init /\ [][NextHttp]_vars

\* ----------------------------------------------------------------- claims
CallsPending == Cardinality(Active)

\* C1: a drain pass that ran alone (no enqueue, no other pass) and in which
\* every submission got a success response ends with the in-memory queue
\* and the persisted queue both empty.
C1_AllSucceedEmptiesQueue ==
    (lastPass.trigger # "none" /\ lastPass.solo /\ lastPass.fails = {})
        => /\ pendingReceipts = <<>>
           /\ StoredPayloads = <<>>

C1_Witness ==
    /\ lastPass.trigger # "none" /\ lastPass.solo /\ lastPass.fails = {}
    /\ lastPass.at = 3
    /\ pendingReceipts = <<>>
    /\ localStorage = [kind |-> "array", val |-> <<>>]

\* C2: a drain pass that ran alone and in which exactly one submission failed
\* ends with a queue, in memory and persisted, that holds exactly the entry
\* of that submission.
C2_OneFailureLeavesThatEntry ==
    \A f \in lastPass.fails :
        (lastPass.solo /\ lastPass.fails = {f})
            => /\ pendingReceipts = <<f.receipt>>
               /\ localStorage = [kind |-> "array", val |-> <<f.receipt.data>>]

C2_Witness ==
    /\ lastPass.solo /\ lastPass.at = 3
    /\ \E f \in lastPass.fails :
          /\ lastPass.fails = {f}
          /\ f.at = 2
          /\ pendingReceipts = <<f.receipt>>
          /\ StoredPayloads = <<f.receipt.data>>

\* C3: a corrupt or malformed item under the storage key loads as an empty
\* queue: construction completes, the listeners are registered and the
\* queue is an empty array.
C3_CorruptItemLoadsEmpty ==
    localStorage.kind \in {"text", "null", "object"}
        => /\ constructed
           /\ listening
           /\ queueKind = "array"
           /\ pendingReceipts = <<>>

\* C4: when the live submission's fetch rejects, the receipt is appended to
\* the pending queue and the offline notification is shown.
C4_RejectedSubmissionIsQueued ==
    [][LiveResponse("reject")
         => /\ Len(pendingReceipts') = Len(pendingReceipts) + 1
            /\ pendingReceipts'[Len(pendingReceipts')].data = live[1]
            /\ banners' = banners + 1]_vars

\* C5: storeReceiptOffline keeps the entries already queued, in place, and
\* adds the receipt as the last element, in memory and in storage.
C5_EnqueueAppends ==
    [][\A data \in Payload :
         storeReceiptOffline(data)
           => /\ Len(pendingReceipts') = Len(pendingReceipts) + 1
              /\ SubSeq(pendingReceipts', 1, Len(pendingReceipts)) = pendingReceipts
              /\ pendingReceipts'[Len(pendingReceipts')].data = data
              /\ StoredPayloads' = Append(Payloads(pendingReceipts), data)]_vars

C5_Witness ==
    /\ Len(pendingReceipts) = 3
    /\ banners = 1 /\ ~isOnline /\ ~offlineClass
    /\ pendingReceipts[3].data = pendingReceipts[1].data
    /\ pendingReceipts[3].id \notin {pendingReceipts[1].id, pendingReceipts[2].id}
    /\ StoredPayloads = Payloads(pendingReceipts)

\* C6: no entry of the queue, in memory or persisted, is one whose success
\* response has been handled.
C6_QueuedEntriesAreUnacknowledged ==
    /\ \A k \in 1..Len(pendingReceipts) : pendingReceipts[k].id \notin acked
    /\ StoredPayloads = Payloads(pendingReceipts)

C6_Witness ==
    /\ acked # {}
    /\ CallsPending = 2
    /\ pendingReceipts # <<>>
    /\ \E i \in Active : Head(drains[i].todo).id \in acked

\* C7: the step that handles a success response removes the entry from the
\* persisted queue as well, before the loop's next fetch is awaited.
C7_RemovalPersistedAtOnce ==
    [][\A i \in Slots :
         HandleResponse(i, "ok")
           => LET receipt == Head(drains[i].todo)
              IN  /\ receipt.id \notin Ids(pendingReceipts')
                  /\ localStorage' = [kind |-> "array", val |-> Payloads(pendingReceipts')]
                  /\ Len(StoredPayloads') =
                        Len(StoredPayloads) - Cardinality({k \in 1..Len(pendingReceipts) :
                                                             pendingReceipts[k].id = receipt.id})]_vars

C7_Witness ==
    \E i \in Active :
        /\ drains[i].solo /\ drains[i].fails = {}
        /\ drains[i].at = 2
        /\ Len(drains[i].todo) = 2
        /\ localStorage = [kind |-> "array", val |-> Payloads(drains[i].todo)]

\* C8: a failed submission (a rejected fetch, a response that is not ok)
\* changes neither the in-memory nor the persisted queue, and the pass goes
\* on to the next entry of its array.
C8_FailureKeepsQueueAndContinues ==
    [][\A i \in Slots, outcome \in {"notok", "reject"} :
         HandleResponse(i, outcome)
           => /\ pendingReceipts' = pendingReceipts
              /\ localStorage' = localStorage
              /\ Len(drains[i].todo) > 1
                   => /\ ~drains'[i].done
                      /\ drains'[i].todo = Tail(drains[i].todo)
                      /\ drains'[i].at = drains[i].at + 1]_vars

C8_Witness ==
    \E i \in Active :
        /\ drains[i].at = 3
        /\ Cardinality(drains[i].fails) = 2
        /\ Len(pendingReceipts) = 3

\* C9: an online event starts syncPendingReceipts exactly once; over an empty
\* queue that call returns at once, with no request issued and the queue
\* and the stored item unchanged.
C9_OnlineEventDrainsOnce ==
    [][(~navigatorOnLine /\ navigatorOnLine')
         => /\ (CallsPending' - CallsPending) + (IF lastPass'.trigger = "online" THEN 1 ELSE 0) = 1
            /\ pendingReceipts = <<>>
                 => /\ lastPass'.trigger = "online" /\ lastPass'.at = 0
                    /\ drains' = drains
                    /\ pendingReceipts' = pendingReceipts
                    /\ localStorage' = localStorage]_vars

C9_Witness ==
    /\ lastPass.trigger = "online" /\ lastPass.at = 0
    /\ pendingReceipts = <<>>
    /\ isOnline /\ ~offlineClass

StartupCall(ds) == {i \in Slots : ds[i].trigger = "startup"}

\* C10 as stated: a page load with a non-empty persisted queue starts a drain.
C10_StartupAlwaysDrains ==
    [][(Reload /\ StoredPayloads # <<>>) => StartupCall(drains') # {}]_vars

\* C10 as amended: a page load starts a drain exactly when the persisted
\* queue is non-empty and navigator.onLine is true, and that drain is over
\* the whole loaded queue; every online event starts a drain.
C10_StartupDrainsWhenOnline ==
    [][/\ Reload
            => /\ StartupCall(drains') # {} <=> (StoredPayloads # <<>> /\ navigatorOnLine)
               /\ \A i \in StartupCall(drains') :
                     /\ drains'[i].todo = pendingReceipts'
                     /\ Payloads(drains'[i].todo) = StoredPayloads
       /\ (~navigatorOnLine /\ navigatorOnLine')
            => \/ lastPass'.trigger = "online"
               \/ \E i \in Slots : drains[i].done /\ drains'[i].trigger = "online"]_vars

C10_Witness ==
    \E i \in Active :
        /\ drains[i].trigger = "startup"
        /\ drains[i].at = 2
        /\ drains[i].fails # {}

\* C11: a drain pass attempts the entries of its array in queue order, one at
\* a time: it starts on the first entry of the queue, the request for the
\* next entry is issued only in the step that handles the response for the
\* entry before it, and an enqueue adds behind the entries still to come.
C11_PassAttemptsInQueueOrder ==
    [][/\ \A i \in Slots :
            (drains[i].done /\ ~drains'[i].done)
              => /\ drains'[i].todo = pendingReceipts'
                 /\ drains'[i].at = 1
       /\ \A i \in Slots, outcome \in Outcome :
            HandleResponse(i, outcome)
              => /\ ~drains'[i].done
                      => /\ drains'[i].todo = Tail(drains[i].todo)
                         /\ drains'[i].at = drains[i].at + 1
                 /\ \A j \in Slots \ {i} : drains'[j].todo = drains[j].todo
       /\ \A data \in Payload :
            storeReceiptOffline(data)
              => \A i \in Active :
                    SubSeq(drains'[i].todo, 1, Len(drains[i].todo)) = drains[i].todo]_vars

C11_Witness ==
    \E i \in Active :
        /\ drains[i].trigger = "startup"
        /\ drains[i].live
        /\ drains[i].at = 3
        /\ Len(pendingReceipts) = 3
        /\ drains[i].todo = <<pendingReceipts[3]>>
        /\ pendingReceipts[3].data # pendingReceipts[1].data

\* C12: within one drain pass every entry is submitted at most once: the
\* entry whose response was handled, failed or not, is not among the entries
\* the pass still attempts, no entry occurs twice among them, and handling a
\* response adds no entry to any pass.
C12_AtMostOneAttemptPerPass ==
    [][/\ \A i \in Active : Cardinality(Ids(drains[i].todo)) = Len(drains[i].todo)
       /\ \A i \in Slots, outcome \in Outcome :
            HandleResponse(i, outcome)
              => /\ Head(drains[i].todo).id \notin Ids(drains'[i].todo)
                 /\ \A j \in Slots : Ids(drains'[j].todo) \subseteq Ids(drains[j].todo)]_vars

C12_Witness ==
    \E i \in Active :
        \E f \in drains[i].fails :
            /\ f.at = 1
            /\ drains[i].at = 2
            /\ f.receipt.id \in Ids(pendingReceipts)
            /\ f.receipt.id \notin Ids(drains[i].todo)

\* C13 as stated: in every reachable state at most one request issued by
\* syncPendingReceipts is outstanding.
C13_OneRequestOutstanding == CallsPending <= 1

C15_OfflineClassReflectsConnectivity == offlineClass <=> ~isOnline

C17_EventsDoNotStopAPass ==
    [][/\ (navigatorOnLine' # navigatorOnLine)
            => \A i \in Active :
                  /\ ~drains'[i].done
                  /\ drains'[i].todo = drains[i].todo
                  /\ drains'[i].at = drains[i].at
       /\ (~navigatorOnLine /\ navigatorOnLine' /\ Active # {} /\ pendingReceipts # <<>>)
            => CallsPending' = CallsPending + 1
       /\ \A i \in Slots, outcome \in Outcome :
            (HandleResponse(i, outcome) /\ Len(drains[i].todo) > 1)
              => /\ ~drains'[i].done
                 /\ Len(drains'[i].todo) = Len(drains[i].todo) - 1]_vars

C17_Witness ==
    /\ CallsPending = 2
    /\ banners = 1
    /\ \E i \in Active, j \in Active :
          /\ drains[i].trigger = "startup" /\ drains[i].at = 2
          /\ drains[j].trigger = "online" /\ drains[j].at = 1

\* C18: an entry leaves the queue only in the step that handles a success
\* response for the request that carried that very entry, that step removes
\* no other entry, the entries that stay keep their order, storage follows,
\* and a page load brings back the same contents.
C18_EntryLeavesOnlyByItsOwnSuccess ==
    [][IF Reload
       THEN Payloads(pendingReceipts') = Payloads(pendingReceipts)
       ELSE /\ \A k \in 1..Len(pendingReceipts) :
                 pendingReceipts[k].id \notin Ids(pendingReceipts')
                   => \E i \in Active :
                         /\ HandleResponse(i, "ok")
                         /\ Head(drains[i].todo) = pendingReceipts[k]
            /\ \A i \in Slots :
                 HandleResponse(i, "ok")
                   => (Ids(pendingReceipts) \ Ids(pendingReceipts')) \subseteq {Head(drains[i].todo).id}
            /\ SelectSeq(pendingReceipts, LAMBDA r : r.id \in Ids(pendingReceipts'))
                 = SelectSeq(pendingReceipts', LAMBDA r : r.id \in Ids(pendingReceipts))
            /\ StoredPayloads' = Payloads(pendingReceipts')]_vars

C18_Witness ==
    \E i \in Active :
        LET receipt == Head(drains[i].todo)
        IN  /\ receipt.id \in acked
            /\ Len(pendingReceipts) = 2
            /\ \E k \in 1..Len(pendingReceipts) : pendingReceipts[k].data = receipt.data

\* C19 as stated: no drain pass issues a request for an entry that is not in
\* the queue at the moment the request is issued.
C19_NoRequestForRemovedEntry ==
    [][\A i \in Slots, outcome \in Outcome :
         (HandleResponse(i, outcome) /\ ~drains'[i].done)
           => Head(drains'[i].todo).id \in Ids(pendingReceipts')]_vars

\* C20: between the steps of the event loop the item stored under
\* 'pendingReceipts' parses to an array with the contents of
\* this.pendingReceipts, in the same order.
C20_StorageMirrorsMemory ==
    LET parsed == JsonParse(GetItemOrDefault(localStorage))
    IN  /\ queueKind = "array"
        /\ ~parsed.threw /\ parsed.kind = "array"
        /\ Payloads(parsed.val) = Payloads(pendingReceipts)

C20_Witness ==
    \E i \in Active :
        /\ drains[i].at = 2 /\ ~drains[i].live
        /\ Len(pendingReceipts) = 3
        /\ pendingReceipts[3].id \notin Ids(drains[i].todo)
        /\ banners = 1
        /\ localStorage = [kind |-> "array", val |-> Payloads(pendingReceipts)]

\* C21 as stated: a receipt stored while a drain pass is pending is among the
\* entries that pass attempts exactly when no entry has left the queue since
\* the pass started.
C21_PassSeesEnqueueUnlessRemoval ==
    [][\A data \in Payload :
         storeReceiptOfflineWithin(data, MaxEvents)
           => \A i \in Active :
                 NewId \in Ids(drains'[i].todo) <=> drains[i].intact]_vars

\* C22: the sync loop removes the entry exactly when the response status is
\* ok, whatever the body says: a 2xx response whose body reports success
\* false removes the entry, in memory and in storage, and any response that
\* is not ok, or a rejected fetch, leaves the queue as it is; the live
\* submission shows an error for that same 2xx response.
C22_DrainGoesByStatusAlone ==
    [][/\ \A i \in Slots, resp \in Responses :
            SyncResponse(i, resp)
              => IF resp.kind = "http" /\ resp.ok
                 THEN /\ Head(drains[i].todo).id \notin Ids(pendingReceipts')
                      /\ pendingReceipts' = Filter(pendingReceipts, Head(drains[i].todo))
                      /\ StoredPayloads' = Payloads(pendingReceipts')
                 ELSE /\ pendingReceipts' = pendingReceipts
                      /\ localStorage' = localStorage
       /\ \A resp \in Responses :
            (LiveHttpResponse(resp) /\ resp.kind = "http" /\ resp.body = "failure")
              => dialog' = "alertError"]_vars

C22_Witness ==
    /\ dialog = "alertError"
    /\ \E i \in Active :
          /\ drains[i].at = 2 /\ ~drains[i].live
          /\ Len(drains[i].todo) = 2
          /\ pendingReceipts = drains[i].todo

C24_OnlyValidFormsArePosted ==
    [][generateReceipt(itemRows)
         => LET sendable ==
                    /\ Len(itemRows) >= 1
                    /\ \A k \in 1..Len(itemRows) :
                          /\ itemRows[k].name # ""
                          /\ ~itemRows[k].quantity.nan /\ itemRows[k].quantity.v > 0
                          /\ ~itemRows[k].price.nan /\ itemRows[k].price.v >= 0
            IN  IF sendable
                THEN /\ live' = <<[k \in 1..Len(itemRows) |->
                                     [name |-> itemRows[k].name,
                                      quantity |-> itemRows[k].quantity.v,
                                      price |-> itemRows[k].price.v]]>>
                     /\ dialog' = "none"
                ELSE /\ live' = <<>>
                     /\ dialog' = "alertInvalid"]_vars

C24_Witness ==
    /\ live # <<>>
    /\ Len(itemRows) = 2
    /\ Len(live[1]) = 2
    /\ live[1][1].name = "a" /\ live[1][2].name = "b"
    /\ itemRows[2].name = "b"

\* C25: the form always has at least one item row: a click on a remove
\* button leaves a single row in place and otherwise removes one row, and a
\* confirmed clearForm leaves exactly one row, blank.
C25_FormKeepsOneRow ==
    [][/\ Len(itemRows) >= 1
       /\ Len(itemRows') >= 1
       /\ \A k \in 1..MaxRows :
            removeItemRow(k)
              => Len(itemRows') = (IF Len(itemRows) = 1 THEN 1 ELSE Len(itemRows) - 1)
       /\ clearForm(TRUE) => itemRows' = <<BlankRow>>]_vars

C25_Witness ==
    /\ Len(itemRows) = 1
    /\ itemRows[1].name = "b"
    /\ dialog = "alertInvalid"

\* C26 as stated: the activity list never holds more than 10 items.
C26_ActivityListBounded == ChildrenLength(liveActivity) <= ActivityLimit

====
